---- MODULE Spec2Model ----
(***************************************************************************)
(* Model of the MedGemma RunPod inference service (src/handler.py) and of  *)
(* its batch client (src/image-captioner.py).                              *)
(*                                                                         *)
(* Texts are sequences of characters over Chars, where "sp" is a blank and *)
(* "nl" a newline; longer literals of the source are single tokens.        *)
(* A Python dict is a TLA+ function (record) whose DOMAIN is its key set.  *)
(* A call that may raise returns Ok(v) or Raise(msg).                      *)
(***************************************************************************)
EXTENDS Integers, Sequences, FiniteSets, TLC

\* ------------------------------------------------------------------ bounds
MaxTextLen == 2
MaxGenLen == 3

\* --------------------------------------------------------- program constants
MAX_NEW_TOKENS == 256
Base64MinLen == 100

\* ------------------------------------------------------------------ values
Chars == {"a", "sp", "nl"}

SeqsUpTo(S, n) == UNION {[1..k -> S] : k \in 0..n}

Absent == [kind |-> "absent"]

NonStr == [kind |-> "nonstr"]

Str(s) == [kind |-> "str", s |-> s]

Ok(v) == [raised |-> FALSE, val |-> v]

Raise(msg) == [raised |-> TRUE, exc |-> msg]

\* str.strip(): blanks and newlines are whitespace
IsSpace(c) == c \in {"sp", "nl"}

RECURSIVE LStrip(_)
LStrip(s) == IF s = <<>> THEN s
             ELSE IF IsSpace(Head(s)) THEN LStrip(Tail(s)) ELSE s

RECURSIVE RStrip(_)
RStrip(s) == IF s = <<>> THEN s
             ELSE IF IsSpace(s[Len(s)]) THEN RStrip(SubSeq(s, 1, Len(s) - 1)) ELSE s

Strip(s) == RStrip(LStrip(s))

\* str.replace('\n', ' ')
ReplaceNewlines(s) == [i \in 1..Len(s) |-> IF s[i] = "nl" THEN "sp" ELSE s[i]]

SingleLine_NoStrip(s) == ReplaceNewlines(s)

\* caption.replace('\n', ' ').strip()
SingleLine(s) == Strip(ReplaceNewlines(s))

\* f"{prefix}{str(e)}\n{traceback_str}"
ErrorWithTrace(prefix, msg) == <<prefix, msg, "nl", "Traceback">>

CAPTION_PROMPT == Str(<<"CAPTION_PROMPT">>)

TEXT_PROMPT == Str(<<"TEXT_PROMPT">>)

\* --------------------------------------------------------------- job inputs
\* An image field is a string in one of four shapes, or not a string.  len is
\* the length of the string; ok says that the resource it designates (the
\* base64 payload, the URL's body, the file) decodes to an image.
ImageForms == {"datauri", "base64", "url", "path"}

ImageLens == {Base64MinLen - 40, Base64MinLen, Base64MinLen + 1}

ImageStrings == [kind : {"str"}, form : ImageForms, len : ImageLens, ok : BOOLEAN]

ImageVals == {Absent, NonStr} \cup ImageStrings

TextVals == {Absent, NonStr} \cup {Str(s) : s \in SeqsUpTo(Chars, MaxTextLen)}

PromptVals == {Absent, Str(<<>>), Str(<<"p">>)}

TokenVals == {Absent, [kind |-> "int", n |-> 16]}

JobInputs == [image : ImageVals, text : TextVals, prompt : PromptVals,
              max_new_tokens : TokenVals]

\* "key" in job_input
Has(job_input, key) == job_input[key] # Absent

\* job_input.get(key, default)
Get(job_input, key, default) == IF Has(job_input, key) THEN job_input[key] ELSE default

\* What the model pipeline (apply_chat_template, generate, decode) does on one
\* call: it raises, or it decodes the new tokens to a text.
GenOutcomes == {Raise("e")} \cup {Ok(s) : s \in SeqsUpTo(Chars, MaxGenLen)}

\* --------------------------------------------------------------- generation
caption_image(image_data, prompt, max_new_tokens, gen) ==
    IF gen.raised
    THEN Ok(ErrorWithTrace("Error processing image: ", gen.exc))
    ELSE Ok(SingleLine(gen.val))

\* if prompt: ... else: the default medical prompt
TextUserPrompt(prompt) ==
    IF prompt.kind = "str" /\ prompt.s # <<>> THEN prompt ELSE TEXT_PROMPT

process_text_question_NoTry(text_input, prompt, max_new_tokens, gen) ==
    IF gen.raised THEN Raise(gen.exc) ELSE Ok(SingleLine(gen.val))

process_text_question(text_input, prompt, max_new_tokens, gen) ==
    IF gen.raised
    THEN Ok(ErrorWithTrace("Error processing text: ", gen.exc))
    ELSE Ok(SingleLine(gen.val))

\* ------------------------------------------------------------ image decoding
\* Image.open(io.BytesIO(base64.b64decode(payload)))
OpenBase64(img) ==
    IF img.form \in {"datauri", "base64"} /\ img.ok THEN Ok("image") ELSE Raise("decode")

\* requests.get(url); raise_for_status(); Image.open(content)
OpenUrl(img) ==
    IF img.form = "url" /\ img.ok THEN Ok("image") ELSE Raise("fetch")

\* Image.open(path)
OpenFile(img) ==
    IF img.form = "path" /\ img.ok THEN Ok("image") ELSE Raise("open")

StartsWithDataImage(img) == img.form = "datauri"

StartsWithHttp(img) == img.form = "url"

IsLongString(img) == img.len > Base64MinLen

\* The cascade of lines 220-255: "invalid" is the early return of line 255.
DecodeImage(img) ==
    IF img.kind # "str" THEN Ok("invalid")
    ELSE IF StartsWithDataImage(img) THEN OpenBase64(img)
    ELSE IF IsLongString(img)
         THEN IF ~OpenBase64(img).raised THEN OpenBase64(img)
              ELSE IF StartsWithHttp(img) THEN OpenUrl(img) ELSE OpenFile(img)
    ELSE IF StartsWithHttp(img) THEN OpenUrl(img)
    ELSE OpenFile(img)

\* ------------------------------------------------------------------ handler
ValidText_NoStrip(text_input) == text_input.kind = "str" /\ text_input.s # <<>>

\* isinstance(text_input, str) and text_input.strip()
ValidText(text_input) == text_input.kind = "str" /\ Strip(text_input.s) # <<>>

NoInputError ==
    <<"No image or text provided", " in input. Please provide either 'image' or 'text' field.">>

\* Which generation function one call of handler invokes, if any.
Generator(job_input) ==
    IF ~Has(job_input, "image") /\ ~Has(job_input, "text") THEN "none"
    ELSE IF Has(job_input, "text")
         THEN IF ValidText(job_input.text) THEN "process_text_question" ELSE "none"
         ELSE IF DecodeImage(job_input.image).raised
                 \/ DecodeImage(job_input.image).val = "invalid"
              THEN "none" ELSE "caption_image"

Prompt(job_input) == Get(job_input, "prompt", CAPTION_PROMPT)

MaxTokens(job_input) ==
    Get(job_input, "max_new_tokens", [kind |-> "int", n |-> MAX_NEW_TOKENS])

\* The prompt text handed to the model, when generation is invoked.
PromptUsed(job_input) ==
    IF Generator(job_input) = "process_text_question"
    THEN TextUserPrompt(Prompt(job_input))
    ELSE IF Generator(job_input) = "caption_image" THEN Prompt(job_input)
    ELSE Absent

HandleText(job_input, gen) ==
    LET r == process_text_question(job_input.text, Prompt(job_input),
                                   MaxTokens(job_input), gen)
    IN IF r.raised THEN r
       ELSE Ok([response |-> r.val, input_type |-> "text"])

HandleImage(job_input, gen) ==
    LET d == DecodeImage(job_input.image)
        c == caption_image(d, Prompt(job_input), MaxTokens(job_input), gen)
    IN IF d.raised
       THEN Ok([error |-> <<"Error processing image: ", d.exc>>,
                traceback |-> <<"Traceback">>])
       ELSE IF d.val = "invalid"
       THEN Ok([error |-> <<"Invalid image format.", " Please provide a base64 encoded image, URL, or file path.">>])
       ELSE IF c.raised
       THEN Ok([error |-> <<"Error processing image: ", c.exc>>,
                traceback |-> <<"Traceback">>])
       ELSE Ok([caption |-> c.val, input_type |-> "image"])

handler(job_input, gen) ==
    IF ~Has(job_input, "image") /\ ~Has(job_input, "text")
    THEN Ok([error |-> NoInputError])
    ELSE IF Has(job_input, "text")
         THEN IF ~ValidText(job_input.text)
              THEN Ok([error |-> <<"Invalid text input.", " Please provide a non-empty string.">>])
              ELSE HandleText(job_input, gen)
         ELSE HandleImage(job_input, gen)

\* ------------------------------------------------------------ service state
VARIABLES
    spc,            \* "idle", "handling" (a job was delivered), "returned"
    job,            \* job["input"] of the job in hand
    result,         \* what handler returned
    raised,         \* handler let an exception out
    genCalled,      \* the generation function the call invoked
    outcome,        \* what the model pipeline did in that call
    promptUsed,     \* the prompt given to the model
    failedBefore    \* an earlier job hit an exception in decoding or generation

svars == <<spc, job, result, raised, genCalled, outcome, promptUsed, failedBefore>>

\* ------------------------------------------------------------- client state
VARIABLES
    args,           \* [mode, sync, concurrent, image_folder]
    disk,           \* [listing, lines]: the folder's entries, the question file
    mpc,            \* main: "discover", "submit", "wait", "exit", "exit1", "unwind", "crashed"
    image_files,
    text_questions,
    tasks,          \* futures, in submission order: one record per submitted task
    queue,          \* the executor's work queue: indices into tasks
    waited,         \* how many future.result() calls have returned
    files           \* output path -> content, for the files that exist

cvars == <<args, disk, mpc, image_files, text_questions, tasks, queue, waited, files>>

vars == <<svars, cvars>>

NoJob == [kind |-> "none"]

ServiceInit ==
    /\ spc = "idle"
    /\ job = NoJob
    /\ result = NoJob
    /\ raised = FALSE
    /\ genCalled = "none"
    /\ outcome = NoJob
    /\ promptUsed = Absent
    /\ failedBefore = FALSE
    /\ args = [mode |-> "image", sync |-> FALSE, concurrent |-> 1, image_folder |-> "imgs"]
    /\ disk = [listing |-> <<>>, lines |-> [found |-> FALSE, lines |-> <<>>]]
    /\ mpc = "discover"
    /\ image_files = <<>>
    /\ text_questions = <<>>
    /\ tasks = <<>>
    /\ queue = <<>>
    /\ waited = 0
    /\ files = <<>>

\* The platform delivers a job to the worker.
Receive ==
    /\ spc = "idle"
    /\ \E j \in JobInputs : job' = j
    /\ spc' = "handling"
    /\ UNCHANGED <<result, raised, genCalled, outcome, promptUsed, failedBefore>>
    /\ UNCHANGED cvars

\* An exception happened inside decoding or generation of this call.
HitException(job_input, gen) ==
    \/ Generator(job_input) # "none" /\ gen.raised
    \/ /\ ~Has(job_input, "text") /\ Has(job_input, "image")
       /\ DecodeImage(job_input.image).raised

\* One call of handler(job), whole.
Handle ==
    /\ spc = "handling"
    /\ \E gen \in GenOutcomes :
         LET r == handler(job, gen)
         IN /\ raised' = r.raised
            /\ result' = IF r.raised THEN NoJob ELSE r.val
            /\ genCalled' = Generator(job)
            /\ outcome' = IF Generator(job) = "none" THEN NoJob ELSE gen
            /\ promptUsed' = PromptUsed(job)
            /\ failedBefore' = (failedBefore \/ HitException(job, gen))
    /\ spc' = "returned"
    /\ UNCHANGED job
    /\ UNCHANGED cvars

\* The worker hands the result to the platform and is ready for the next job.
\* A handler that raised takes the worker down: no further job is served.
Return ==
    /\ spc = "returned"
    /\ ~raised
    /\ spc' = "idle"
    /\ job' = NoJob
    /\ result' = NoJob
    /\ genCalled' = "none"
    /\ outcome' = NoJob
    /\ promptUsed' = Absent
    /\ UNCHANGED <<raised, failedBefore>>
    /\ UNCHANGED cvars

\* ==========================================================================
\* Batch client (src/image-captioner.py)
\* ==========================================================================

\* Non-terminal statuses one job may report before a terminal one.
MaxPolls == 1

\* Largest value of --concurrent tried.
MaxConcurrent == 2

\* A directory entry: stem and extension, as os.path.splitext splits it.
File(stem, ext) == [stem |-> stem, ext |-> ext]

\* os.listdir(args.image_folder), in the order the system lists it.
Folders == { <<>>,
             <<File(<<"b">>, ".jpg"), File(<<"notes">>, ".txt")>>,
             <<File(<<"a">>, ".jpg"), File(<<"a">>, ".PNG")>> }

\* args.text_file: whether it exists, and its lines.
QuestionFile(found, lines) == [found |-> found, lines |-> lines]

QuestionFiles == { QuestionFile(FALSE, <<>>),
                   QuestionFile(TRUE, <<<<"sp">>>>),
                   QuestionFile(TRUE, <<<<>>, <<"sp", "q">>>>) }

Lower(ext) == IF ext = ".PNG" THEN ".png" ELSE ext

supported_formats == {".jpg", ".jpeg", ".png", ".bmp", ".webp"}

IsSupported(f) == Lower(f.ext) \in supported_formats

\* [os.path.join(folder, f) for f in os.listdir(folder) if splitext(f.lower())[1] in supported]
ListImages(folder, listing) ==
    LET kept == SelectSeq(listing, IsSupported)
    IN [i \in 1..Len(kept) |-> [dir |-> folder, stem |-> kept[i].stem, ext |-> kept[i].ext]]

NonBlank(line) == Strip(line) # <<>>

\* [line.strip() for line in f if line.strip()]; [] when the file is missing
load_text_questions(text_file) ==
    IF ~text_file.found THEN <<>>
    ELSE LET kept == SelectSeq(text_file.lines, NonBlank)
         IN [i \in 1..Len(kept) |-> Strip(kept[i])]

Digits == <<"1", "2", "3", "4">>

ImageItem(path) == [type |-> "image", path |-> path]

TextItem(q, i) == [type |-> "text", question |-> q, index |-> i]

\* f"{os.path.splitext(image_path)[0]}.txt"
ImageOutputPath(path) == [dir |-> path.dir, name |-> path.stem]

\* f"question_{question_index + 1}.txt", relative to the working directory
TextOutputPath(index) == [dir |-> ".", name |-> <<"question_", Digits[index + 1]>>]

OutputPath(item) ==
    IF item.type = "image" THEN ImageOutputPath(item.path) ELSE TextOutputPath(item.index)

\* ------------------------------------------------------------ HTTP responses
\* What the service can put in `output` for an item: its results for an image
\* job or a text job (handler), or an error result.
Captions == {<<>>, <<"x">>, <<"y", "y">>}

ImageOutputs == {[caption |-> c, input_type |-> "image"] : c \in Captions}
                  \cup {[error |-> <<"e">>]}

TextOutputs == {[response |-> c, input_type |-> "text"] : c \in {<<"x">>}}
                 \cup {[answer |-> <<"x">>]} \cup {[error |-> <<"e">>]}

OutputsFor(item) == IF item.type = "image" THEN ImageOutputs ELSE TextOutputs

Body(status, error, output) == [status |-> status, error |-> error, output |-> output]

NonTerminalBodies ==
    {Body(s, Absent, Absent) : s \in {"IN_QUEUE", "IN_PROGRESS", "TIMED_OUT"}}

TerminalBodies(item) ==
    {Body("COMPLETED", Absent, o) : o \in OutputsFor(item) \cup {Absent}}
      \cup {Body("FAILED", Str(<<"e">>), Absent), Body("CANCELLED", Absent, Absent)}

\* requests raised, or raise_for_status() did
HttpError == [kind |-> "http_error"]

\* The last status a task read, and the `output` that came with it.
StatusOf(task) == IF "status" \in DOMAIN task.body THEN task.body.status ELSE "none"

OutputOf(task) == IF "output" \in DOMAIN task.body THEN task.body.output ELSE Absent

HasKey(dict, key) == dict # Absent /\ key \in DOMAIN dict

\* Python's None, where a text may stand
None == <<"None">>

\* dict.get(key)
DictGet(dict, key) == IF HasKey(dict, key) THEN dict[key] ELSE None

\* `if caption:` -- neither None nor the empty string
Truthy(v) == v # None /\ v # <<>>

IsTerminal_NoCancelled(status) == status \in {"COMPLETED", "FAILED"}

\* the three branches of the polling loop that break
IsTerminal(status) == status \in {"COMPLETED", "FAILED", "CANCELLED"}

ExceptException_Missing(end) == end

\* except Exception as e: print(...)
ExceptException(end) == IF end = "raised" THEN "caught" ELSE end

\* f"Question: {question}\n\nAnswer: {answer}"
AnswerText(question, answer) == <<"Question: ">> \o question \o <<"nl", "nl", "Answer: ">> \o answer

\* What a flush at close leaves in a file opened with 'w' (offset 0).
Overlay(content, old) ==
    IF Len(old) > Len(content)
    THEN content \o SubSeq(old, Len(content) + 1, Len(old)) ELSE content

Modes == {"image", "text", "both"}

ClientInit ==
    /\ args \in [mode : Modes, sync : BOOLEAN, concurrent : 1..MaxConcurrent,
                 image_folder : {"imgs"}]
    /\ disk \in [listing : Folders, lines : QuestionFiles]
    /\ mpc = "discover"
    /\ image_files = <<>>
    /\ text_questions = <<>>
    /\ tasks = <<>>
    /\ queue = <<>>
    /\ waited = 0
    /\ files = <<>>
    /\ spc = "idle"
    /\ job = NoJob
    /\ result = NoJob
    /\ raised = FALSE
    /\ genCalled = "none"
    /\ outcome = NoJob
    /\ promptUsed = Absent
    /\ failedBefore = FALSE

\* The items main will submit: images first, then questions.
Items ==
    LET imgs == IF args.mode \in {"image", "both"} THEN image_files ELSE <<>>
        qs == IF args.mode \in {"text", "both"} THEN text_questions ELSE <<>>
    IN [i \in 1..Len(imgs) |-> ImageItem(imgs[i])]
         \o [i \in 1..Len(qs) |-> TextItem(qs[i], i - 1)]

\* Lines 329-353: discovery, and sys.exit(1) when the mode's items are missing.
Discover ==
    /\ mpc = "discover"
    /\ LET imgs == IF args.mode \in {"image", "both"}
                   THEN ListImages(args.image_folder, disk.listing) ELSE <<>>
           qs == IF args.mode \in {"text", "both"}
                 THEN load_text_questions(disk.lines) ELSE <<>>
       IN /\ image_files' = imgs
          /\ text_questions' = qs
          /\ mpc' = IF \/ args.mode = "image" /\ imgs = <<>>
                       \/ args.mode = "text" /\ qs = <<>>
                    THEN "exit1" ELSE "submit"
    /\ UNCHANGED <<args, disk, tasks, queue, waited, files>>
    /\ UNCHANGED svars

NewTask(item) ==
    [item |-> item, pc |-> "queued", polls |-> 0, body |-> NoJob,
     end |-> "none", opened |-> FALSE]

\* executor.submit(...): one more future, one more work item.
Submit ==
    /\ mpc = "submit"
    /\ Len(tasks) < Len(Items)
    /\ tasks' = Append(tasks, NewTask(Items[Len(tasks) + 1]))
    /\ queue' = Append(queue, Len(tasks) + 1)
    /\ UNCHANGED <<args, disk, mpc, image_files, text_questions, waited, files>>
    /\ UNCHANGED svars

SubmitDone ==
    /\ mpc = "submit"
    /\ Len(tasks) = Len(Items)
    /\ mpc' = "wait"
    /\ UNCHANGED <<args, disk, image_files, text_questions, tasks, queue, waited, files>>
    /\ UNCHANGED svars

InFlight == {t \in 1..Len(tasks) : tasks[t].pc \in {"run", "poll", "write"}}

FreeWorker_Unbounded == TRUE

\* ThreadPoolExecutor(max_workers=args.concurrent): a worker thread is free
FreeWorker == Cardinality(InFlight) < args.concurrent

\* A worker thread takes the next work item.
Pick ==
    /\ queue # <<>>
    /\ FreeWorker
    /\ tasks' = [tasks EXCEPT ![Head(queue)].pc = "run"]
    /\ queue' = Tail(queue)
    /\ UNCHANGED <<args, disk, mpc, image_files, text_questions, waited, files>>
    /\ UNCHANGED svars

Finish(task, end) == [task EXCEPT !.pc = "done", !.end = ExceptException(end)]

\* open(output_path, 'w'): creates or truncates
OpenForWrite(path) ==
    [p \in DOMAIN files \cup {path} |-> IF p = path THEN <<>> ELSE files[p]]

\* The key of `output` the client reads for an item.
ResultKey(item) == IF item.type = "image" THEN "caption" ELSE "answer"

\* The text the client writes for an item, given the value under its key.
FileText(item, value) ==
    IF item.type = "image" THEN value ELSE AnswerText(item.question, value)

\* send_image_request_sync / send_text_request_sync, up to the open() of the
\* output file (lines 88-123, 133-161).
RunSync(t) ==
    /\ t \in DOMAIN tasks
    /\ tasks[t].pc = "run"
    /\ args.sync
    /\ LET item == tasks[t].item
       IN \E enc \in BOOLEAN, resp \in {HttpError} \cup NonTerminalBodies \cup TerminalBodies(item) :
            IF item.type = "image" /\ ~enc
            THEN /\ tasks' = [tasks EXCEPT ![t] = Finish(@, "quiet")]
                 /\ UNCHANGED files
            ELSE IF resp = HttpError
            THEN /\ tasks' = [tasks EXCEPT ![t] = Finish([@ EXCEPT !.body = resp], "raised")]
                 /\ UNCHANGED files
            ELSE IF resp.error # Absent
            THEN /\ tasks' = [tasks EXCEPT ![t] = Finish([@ EXCEPT !.body = resp], "quiet")]
                 /\ UNCHANGED files
            ELSE /\ files' = OpenForWrite(OutputPath(item))
                 /\ IF HasKey(resp.output, ResultKey(item))
                    THEN tasks' = [tasks EXCEPT ![t] = [@ EXCEPT !.body = resp,
                                       !.opened = TRUE, !.pc = "write"]]
                    ELSE tasks' = [tasks EXCEPT ![t] =
                                       Finish([@ EXCEPT !.body = resp, !.opened = TRUE], "raised")]
    /\ UNCHANGED <<args, disk, mpc, image_files, text_questions, queue, waited>>
    /\ UNCHANGED svars

\* send_image_request_async / send_text_request_async, up to the polling loop
\* (lines 171-203, 246-272).
RunAsync(t) ==
    /\ t \in DOMAIN tasks
    /\ tasks[t].pc = "run"
    /\ ~args.sync
    /\ LET item == tasks[t].item
       IN \E enc \in BOOLEAN, post \in {"http_error", "no_id", "id"} :
            tasks' = [tasks EXCEPT ![t] =
                IF item.type = "image" /\ ~enc THEN Finish(@, "quiet")
                ELSE IF post = "http_error" THEN Finish([@ EXCEPT !.body = HttpError], "raised")
                ELSE IF post = "no_id" THEN Finish(@, "quiet")
                ELSE [@ EXCEPT !.pc = "poll"]]
    /\ UNCHANGED <<args, disk, mpc, image_files, text_questions, queue, waited, files>>
    /\ UNCHANGED svars

\* One turn of the polling loop: sleep, GET status, dispatch on the status.
Poll(t) ==
    /\ t \in DOMAIN tasks
    /\ tasks[t].pc = "poll"
    /\ LET item == tasks[t].item
           bodies == IF tasks[t].polls < MaxPolls
                     THEN NonTerminalBodies \cup TerminalBodies(item)
                     ELSE TerminalBodies(item)
       IN \E resp \in {HttpError} \cup bodies :
            LET polled == [tasks[t] EXCEPT !.polls = @ + 1]
                value == DictGet(resp.output, ResultKey(item))
            IN IF resp = HttpError
               THEN /\ tasks' = [tasks EXCEPT ![t] = Finish([polled EXCEPT !.body = resp], "raised")]
                    /\ UNCHANGED files
               ELSE IF ~IsTerminal(resp.status)
               THEN /\ tasks' = [tasks EXCEPT ![t] = [polled EXCEPT !.body = resp]]
                    /\ UNCHANGED files
               ELSE IF resp.status = "COMPLETED" /\ Truthy(value)
               THEN /\ tasks' = [tasks EXCEPT ![t] = [polled EXCEPT !.body = resp,
                                      !.opened = TRUE, !.pc = "write"]]
                    /\ files' = OpenForWrite(OutputPath(item))
               ELSE /\ tasks' = [tasks EXCEPT ![t] = Finish([polled EXCEPT !.body = resp], "quiet")]
                    /\ UNCHANGED files
    /\ UNCHANGED <<args, disk, mpc, image_files, text_questions, queue, waited>>
    /\ UNCHANGED svars

\* f.write(...) and the close at the end of the with block.
WriteFile(t) ==
    /\ t \in DOMAIN tasks
    /\ tasks[t].pc = "write"
    /\ LET item == tasks[t].item
           path == OutputPath(item)
           text == FileText(item, tasks[t].body.output[ResultKey(item)])
       IN /\ files' = [files EXCEPT ![path] = Overlay(text, @)]
          /\ tasks' = [tasks EXCEPT ![t] = Finish(@, "saved")]
    /\ UNCHANGED <<args, disk, mpc, image_files, text_questions, queue, waited>>
    /\ UNCHANGED svars

TaskStep(t) == RunSync(t) \/ RunAsync(t) \/ Poll(t) \/ WriteFile(t)

\* future.result() on the next future: returns when that task is done, and
\* re-raises what the task raised.
WaitResult ==
    /\ mpc = "wait"
    /\ waited < Len(tasks)
    /\ tasks[waited + 1].pc = "done"
    /\ IF tasks[waited + 1].end = "raised"
       THEN mpc' = "unwind" /\ UNCHANGED waited
       ELSE waited' = waited + 1 /\ UNCHANGED mpc
    /\ UNCHANGED <<args, disk, image_files, text_questions, tasks, queue, files>>
    /\ UNCHANGED svars

AllDone == \A t \in 1..Len(tasks) : tasks[t].pc = "done"

\* The end of the with block: executor.shutdown(wait=True), then main returns
\* or the exception goes on.
ExitPool ==
    /\ \/ mpc = "wait" /\ waited = Len(tasks)
       \/ mpc = "unwind"
    /\ queue = <<>> /\ AllDone
    /\ mpc' = IF mpc = "unwind" THEN "crashed" ELSE "exit"
    /\ UNCHANGED <<args, disk, image_files, text_questions, tasks, queue, waited, files>>
    /\ UNCHANGED svars

MainStep == Discover \/ Submit \/ SubmitDone \/ WaitResult \/ ExitPool

TaskIds == 1..3

ClientNext ==
    \/ Discover
    \/ Submit
    \/ SubmitDone
    \/ WaitResult
    \/ ExitPool
    \/ Pick
    \/ \E t \in TaskIds : RunSync(t)
    \/ \E t \in TaskIds : RunAsync(t)
    \/ \E t \in TaskIds : Poll(t)
    \/ \E t \in TaskIds : WriteFile(t)

\* ------------------------------------------------------------ specifications
ServiceNext == Receive \/ Handle \/ Return

\* The service alone: the client has not been started.
ServiceSpec == ServiceInit /\ [][ServiceNext]_vars

\* The client alone, against any service: main and the pool's threads are
\* scheduled fairly.
ClientSpec ==
    /\ ClientInit
    /\ [][ClientNext]_vars
    /\ WF_vars(MainStep)
    /\ WF_vars(Pick)
    /\ \A t \in TaskIds : WF_vars(TaskStep(t))

\* ==========================================================================
\* Properties of the service
\* ==========================================================================
Range(s) == {s[i] : i \in 1..Len(s)}

WhitespaceOnly(s) == \A i \in 1..Len(s) : s[i] \in {"sp", "nl"}

HasResultKey(key) == key \in DOMAIN result

\* C1: a job with neither `image` nor `text`, and a job whose `text` is an
\* empty or whitespace-only string, gets a result with an `error` key (the
\* first one starting "No image or text provided"), handler does not raise,
\* and neither caption_image nor process_text_question is invoked.
C1_ValidationErrors ==
    spc = "returned" =>
      /\ (~Has(job, "image") /\ ~Has(job, "text")) =>
            /\ ~raised
            /\ HasResultKey("error")
            /\ Head(result.error) = "No image or text provided"
            /\ genCalled = "none"
      /\ (job.text.kind = "str" /\ WhitespaceOnly(job.text.s)) =>
            /\ ~raised
            /\ HasResultKey("error")
            /\ genCalled = "none"

C1_Witness ==
    /\ spc = "returned"
    /\ job.text = Str(<<"sp", "nl">>)
    /\ Has(job, "image")
    /\ HasResultKey("error")
    /\ genCalled = "none"

\* An image job in one of the four accepted encodings that decodes to an image.
WellFormedImageJob ==
    /\ ~Has(job, "text")
    /\ job.image.kind = "str"
    /\ job.image.ok

\* C2: for a well-formed image job the result always contains
\* input_type "image" and a caption with no newline character, whatever
\* happens inside generation.
C2_ImageResult ==
    (spc = "returned" /\ WellFormedImageJob) =>
      /\ ~raised
      /\ HasResultKey("input_type") /\ result.input_type = "image"
      /\ HasResultKey("caption") /\ "nl" \notin Range(result.caption)

\* A text job whose text is a string with a character that is not whitespace.
WellFormedTextJob ==
    /\ job.text.kind = "str"
    /\ ~WhitespaceOnly(job.text.s)

\* C3 as stated: for a well-formed text job the result contains
\* input_type "text" and a non-empty response, unless generation errors.
C3_NonEmptyResponse ==
    (spc = "returned" /\ WellFormedTextJob /\ ~outcome.raised) =>
      /\ ~raised
      /\ HasResultKey("input_type") /\ result.input_type = "text"
      /\ HasResultKey("response") /\ result.response # <<>>

\* C3 amended: for a well-formed text job the result always contains
\* input_type "text" and a response without newlines; the response is empty
\* exactly when generation ended without error and decoded to no character
\* other than blanks and newlines.
C3_TextResult ==
    (spc = "returned" /\ WellFormedTextJob) =>
      /\ ~raised
      /\ genCalled = "process_text_question"
      /\ HasResultKey("input_type") /\ result.input_type = "text"
      /\ HasResultKey("response")
      /\ outcome.raised => result.response # <<>>
      /\ ~outcome.raised =>
            /\ "nl" \notin Range(result.response)
            /\ (result.response = <<>>) <=> WhitespaceOnly(outcome.val)

C3_Witness ==
    /\ spc = "returned"
    /\ WellFormedTextJob
    /\ outcome = Ok(<<"sp", "nl">>)
    /\ HasResultKey("response") /\ result.response = <<>>

\* A text that reads as an error with its trace.
IsErrorWithTrace(s) ==
    /\ Len(s) > 0
    /\ Head(s) \in {"Error processing image: ", "Error processing text: "}
    /\ "Traceback" \in Range(s)

\* An exception happened in this call: while decoding the image, or in generation.
DecodeFailed ==
    ~Has(job, "text") /\ Has(job, "image") /\ job.image.kind = "str" /\ genCalled = "none"

GenerationFailed == genCalled # "none" /\ outcome.raised

\* C4: handler never raises on a job with an input mapping: an exception in
\* decoding or generation comes back as a result carrying an error text with
\* its trace, the worker stays ready for the next job, and the result of a
\* job is that of handler on this job and this call's generation alone,
\* whether or not an earlier job failed.
C4_NeverRaises ==
    /\ ~raised
    /\ spc = "returned" =>
         /\ DecodeFailed => HasResultKey("error") /\ HasResultKey("traceback")
         /\ GenerationFailed =>
               \/ HasResultKey("caption") /\ IsErrorWithTrace(result.caption)
               \/ HasResultKey("response") /\ IsErrorWithTrace(result.response)
         /\ \E gen \in GenOutcomes :
               /\ outcome \in {NoJob, gen}
               /\ handler(job, gen) = Ok(result)
         /\ ENABLED Return

C4_Witness ==
    /\ spc = "returned"
    /\ failedBefore
    /\ ~DecodeFailed /\ ~GenerationFailed
    /\ HasResultKey("response")
    /\ result.response = <<"a">>

\* ==========================================================================
\* Properties of the client
\* ==========================================================================
\* C5: at most `concurrent` item-processing tasks are in flight at any time,
\* image and text tasks counted together.
C5_ConcurrencyBound ==
    Cardinality({t \in DOMAIN tasks : tasks[t].pc \notin {"queued", "done"}}) <= args.concurrent

C5_Witness ==
    /\ args.mode = "both"
    /\ args.concurrent = 2
    /\ \E t, u \in DOMAIN tasks :
         /\ tasks[t].item.type = "image" /\ tasks[t].pc = "poll"
         /\ tasks[u].item.type = "text" /\ tasks[u].pc = "poll"

\* The number of items discovery found for the mode.
Discovered == Len(image_files) + Len(text_questions)

\* C6: main ends; when it leaves the pool every discovered item has been
\* submitted and its task has finished; no task raises out of
\* future.result(), so main never unwinds on one item's failure.
C6_CompletionAndIsolation ==
    /\ <>(mpc \in {"exit", "exit1"})
    /\ [](mpc = "exit" =>
            /\ Len(tasks) = Discovered
            /\ \A t \in DOMAIN tasks : tasks[t].pc = "done" /\ tasks[t].end # "raised")
    /\ [](mpc \notin {"unwind", "crashed"})
    /\ [](\A t \in DOMAIN tasks : tasks[t].end # "raised")

C6_Witness ==
    /\ mpc = "exit"
    /\ Len(tasks) = 3
    /\ \E t, u, v \in DOMAIN tasks :
         /\ t < u /\ u < v
         /\ tasks[t].body = HttpError /\ tasks[t].end = "caught"
         /\ StatusOf(tasks[u]) = "FAILED"
         /\ tasks[v].end = "saved"

\* C7: in async mode a task never requests the status again once it has read
\* COMPLETED, FAILED or CANCELLED, and after any other status it is still in
\* the polling loop, about to sleep and request the status again.
C7_Polling ==
    /\ [][\A t \in DOMAIN tasks :
            (~args.sync /\ StatusOf(tasks[t]) \in {"COMPLETED", "FAILED", "CANCELLED"})
               => tasks'[t].polls = tasks[t].polls]_vars
    /\ [](\A t \in DOMAIN tasks :
            (~args.sync /\ tasks[t].polls > 0) =>
               /\ StatusOf(tasks[t]) \in {"COMPLETED", "FAILED", "CANCELLED"}
                     => tasks[t].pc \in {"write", "done"}
               /\ StatusOf(tasks[t]) \in {"IN_QUEUE", "IN_PROGRESS", "TIMED_OUT"}
                     => tasks[t].pc = "poll")

C7_Witness ==
    \E t \in DOMAIN tasks :
        /\ ~args.sync
        /\ tasks[t].polls = 2
        /\ StatusOf(tasks[t]) = "CANCELLED"
        /\ tasks[t].pc = "done"

\* The item's task ended on a failed HTTP call, a FAILED or CANCELLED job, or
\* an error result in `output`.
FailedItem(t) ==
    /\ tasks[t].pc = "done"
    /\ \/ tasks[t].body = HttpError
       \/ StatusOf(tasks[t]) \in {"FAILED", "CANCELLED"}
       \/ HasKey(OutputOf(tasks[t]), "error")

\* C8: a task that ends on a failed HTTP call, a FAILED or CANCELLED job or
\* an error result has not opened (created or truncated) its output file.
C8_NoFileOnFailure ==
    \A t \in DOMAIN tasks : FailedItem(t) => ~tasks[t].opened

\* The image's job succeeded with a caption.
SucceededImage(t) ==
    /\ tasks[t].item.type = "image"
    /\ tasks[t].pc = "done"
    /\ StatusOf(tasks[t]) = "COMPLETED"
    /\ HasKey(OutputOf(tasks[t]), "caption")

\* C9: once the task of an image whose job succeeded with caption c has
\* ended, the file at the image's path with .txt for its extension exists
\* and holds c.
C9_CaptionFile ==
    \A t \in DOMAIN tasks :
        SucceededImage(t) =>
            LET path == [dir |-> tasks[t].item.path.dir, name |-> tasks[t].item.path.stem]
            IN /\ path \in DOMAIN files
               /\ files[path] = OutputOf(tasks[t]).caption

\* The question's job succeeded with the service's text result.
SucceededQuestion(t) ==
    /\ tasks[t].item.type = "text"
    /\ tasks[t].pc = "done"
    /\ StatusOf(tasks[t]) = "COMPLETED"
    /\ HasKey(OutputOf(tasks[t]), "response")

IsSuffix(r, s) == Len(r) <= Len(s) /\ SubSeq(s, Len(s) - Len(r) + 1, Len(s)) = r

\* C10: once the task of the question at 1-based index N whose job succeeded
\* with {response: r, input_type: "text"} has ended, question_N.txt exists
\* and the text written to it ends with r.
C10_AnswerFile ==
    \A t \in DOMAIN tasks :
        SucceededQuestion(t) =>
            LET path == [dir |-> ".", name |-> <<"question_", Digits[tasks[t].item.index + 1]>>]
            IN /\ path \in DOMAIN files
               /\ IsSuffix(OutputOf(tasks[t]).response, files[path])

\* C11: any two distinct items submitted in one run have distinct output
\* file paths, so no output file is opened for writing by more than one task.
C11_DistinctOutputPaths ==
    \A t, u \in DOMAIN tasks :
        t # u =>
            /\ OutputPath(tasks[t].item) # OutputPath(tasks[u].item)
            /\ ~(/\ tasks[t].opened /\ tasks[u].opened
                 /\ OutputPath(tasks[t].item) = OutputPath(tasks[u].item))

\* C12: when generation is invoked, a prompt the job carries is the prompt
\* used; without one an image job uses CAPTION_PROMPT and a text job uses the
\* text default of process_text_question, which is not CAPTION_PROMPT.
C12_PromptResolution ==
    (spc = "returned" /\ genCalled # "none") =>
        /\ Has(job, "prompt") => promptUsed = job.prompt
        /\ (~Has(job, "prompt") /\ genCalled = "caption_image")
              => promptUsed = Str(<<"CAPTION_PROMPT">>)
        /\ (~Has(job, "prompt") /\ genCalled = "process_text_question")
              => promptUsed = Str(<<"TEXT_PROMPT">>)

\* C13: a job whose input holds both `image` and `text` is processed as an
\* image job: process_text_question is not invoked and an input_type in the
\* result is "image".
C13_ImagePrecedence ==
    (spc = "returned" /\ Has(job, "image") /\ Has(job, "text")) =>
        /\ genCalled # "process_text_question"
        /\ HasResultKey("input_type") => result.input_type = "image"

====
